---- MODULE Spec2Model ----
(***************************************************************************)
(* Creative-campaign pipeline: gateway creation and fan-out, the five      *)
(* stage workers (context enrichment, creative generation, image           *)
(* generation, brand composition, text overlay), the document store and    *)
(* the durable bus between the stages.                                     *)
(*                                                                         *)
(* One handler attempt is one action.  What the collaborators answer       *)
(* during the attempt (the generative service, the blob store, the         *)
(* document store, the broker) is the attempt's input `f`: "none" when     *)
(* every call succeeds, otherwise the call that fails.                     *)
(***************************************************************************)
EXTENDS Integers, Sequences, FiniteSets, Bags

VARIABLES
    campaigns,       \* db.campaigns: campaign_id -> document, or NoCampaign
    context_packs,   \* db.context_packs: <<campaign_id, locale>> -> number of documents
    creatives,       \* db.creatives: <<campaign_id, locale>> -> number of documents
    images,          \* db.images: <<campaign_id, locale, aspect_ratio>> -> number of documents
    branded_images,  \* db.branded_images: <<campaign_id, locale>> -> number of documents
    streams,         \* subject -> bag of [body, n]: unacknowledged messages, n deliveries so far
    parked,          \* subject -> bag of bodies that used up max_deliver
    briefs,          \* number of briefs.ingested events published
    orch,            \* the orchestrate_campaign task of the created campaign
    response,        \* status code of the last POST /campaigns (0: none yet)
    now,             \* the clock read by datetime.now()
    faults,          \* failing calls so far
    injected,        \* whether scripts/test_creative_generator.py has sent its message
    last,            \* the most recent handler attempt
    emitted,         \* subject -> bag of the bodies the broker has accepted so far
    stored,          \* collection -> the documents of context_packs / creatives, in insertion order
    calls,           \* caller -> its update_one(filter, {"$set": doc}, upsert=True) in progress
    overlays,        \* text overlay attempt -> how far it is in writing its output, reading the campaign and marking it
    brief,           \* audience and localization of the campaign whose fan-out is resolved
    requests,        \* locale -> the audience fields of its ContextEnrichRequest
    creating         \* request handler -> how far its create_campaign is

pipeline == <<campaigns, context_packs, creatives, images, branded_images, streams,
              parked, briefs, orch, response, now, faults, injected, last, emitted>>

vars == <<pipeline, stored, calls, overlays, brief, requests, creating>>

----------------------------------------------------------------------------
(* Bounds of the model *)

MaxFaults == 1
MaxClock == 1
MaxCallers == 2
MaxOverlayers == 2
MaxCreators == 2

(* Program constants *)

(* A subscriber configured with one delivery more *)
MaxDeliverPlusOne == 3 + 1

MaxDeliver == 3

Locales == {"en", "de"}
AspectRatios == {"1x1", "16x9"}

CampaignId == "cmp-1"
TestCampaignId == "test_campaign"
CampaignIds == {CampaignId, TestCampaignId}

CorrelationId == "corr-1"
TestCorrelationId == "test_corr"

(* target_locales and output.aspect_ratios of the create requests *)
LocaleLists == {<<"en">>, <<"en", "de">>}
RatioLists == {<<"1x1">>, <<"1x1", "16x9">>}

NoRatio == "-"
NullUrl == "null"

PROCESSING == "processing"
COMPLETED == "completed"
FAILED == "failed"

----------------------------------------------------------------------------
(* Subjects *)

CONTEXT_ENRICH_REQUEST_SUBJECT == "context.enrich.request"
CONTEXT_ENRICH_READY_SUBJECT == "context.enrich.ready"
CREATIVE_GENERATE_DONE_SUBJECT == "creative.generate.done"
IMAGE_GENERATED_SUBJECT == "image.generated"
BRAND_COMPOSED_SUBJECT == "brand.composed"
TEXT_OVERLAID_SUBJECT == "text.overlaid"

Subjects == {CONTEXT_ENRICH_REQUEST_SUBJECT, CONTEXT_ENRICH_READY_SUBJECT,
             CREATIVE_GENERATE_DONE_SUBJECT, IMAGE_GENERATED_SUBJECT,
             BRAND_COMPOSED_SUBJECT, TEXT_OVERLAID_SUBJECT}

----------------------------------------------------------------------------
(* Documents and messages *)

(* Python's None in an Optional field *)
None == -1

NoCampaign == [status |-> "absent", target_locales |-> <<>>, aspect_ratios |-> <<>>,
               correlation_id |-> "", outputs |-> [l \in Locales |-> NullUrl],
               completed_at |-> None]

(* Campaign(...) and campaign.model_dump(): the document create_campaign inserts.
   outputs maps a locale to the final_image_url of its slot (the aspect ratio of
   the image the URL points at), NullUrl while the locale has no slot. *)
NewCampaign(req, corr) ==
    [status |-> PROCESSING, target_locales |-> req.target_locales,
     aspect_ratios |-> req.aspect_ratios, correlation_id |-> corr,
     outputs |-> [l \in Locales |-> NullUrl], completed_at |-> None]

Exists(cid) == campaigns[cid].status # "absent"

Requests == [campaign_id : {CampaignId}, target_locales : LocaleLists,
             aspect_ratios : RatioLists]

(* The requests with one locale or one aspect ratio *)
SmallRequests ==
    {r \in Requests : Len(r.target_locales) = 1 \/ Len(r.aspect_ratios) = 1}

(* A message body.  aspect_ratio names the image a blob reference of the body
   points at (NoRatio when the body carries none); uploaded tells whether the
   blob behind the body's s3 uri was stored. *)
Body(cid, loc, corr, ar, up) ==
    [campaign_id |-> cid, locale |-> loc, correlation_id |-> corr,
     aspect_ratio |-> ar, uploaded |-> up]

Fault(kind, at) == [kind |-> kind, at |-> at]
NoFault == Fault("none", 0)

NoAttempt == [stage |-> "none", body |-> Body("", "", "", NoRatio, FALSE), delivery |-> 0,
              path |-> "none", called |-> 0, written |-> 0, published |-> 0,
              due |-> 0, outcome |-> "none"]

----------------------------------------------------------------------------
(* The bus: JetStream publish, delivery, ack, nak and max_deliver *)

RECURSIVE PublishAll(_, _)
PublishAll(bag, bodies) ==
    IF bodies = <<>> THEN bag
    ELSE PublishAll(bag (+) SetToBag({[body |-> Head(bodies), n |-> 0]}), Tail(bodies))

(* The record of what the broker accepted on a subject *)
RECURSIVE Emitted(_, _)
Emitted(bag, bodies) ==
    IF bodies = <<>> THEN bag
    ELSE Emitted(bag (+) SetToBag({Head(bodies)}), Tail(bodies))

(* The messages of a subject a subscriber can be handed: unacknowledged and
   delivered fewer than max_deliver times. *)
Deliverable(subject) == {m \in BagToSet(streams[subject]) : m.n < MaxDeliver}

(* The stream after one delivery of m ended with `outcome`: an acknowledged
   message leaves; a message that is nak'ed, or neither ack'ed nor nak'ed
   (ack_wait runs out), is delivered again until max_deliver. *)
Redeliver(outcome, n) == outcome # "ack" /\ n + 1 < MaxDeliver

Settled(bag, m, outcome) ==
    LET rest == bag (-) SetToBag({m})
    IN  IF Redeliver(outcome, m.n)
        THEN rest (+) SetToBag({[body |-> m.body, n |-> m.n + 1]})
        ELSE rest

Parks(outcome, n) == outcome # "ack" /\ n + 1 >= MaxDeliver

(* One handler attempt on message m of subject `from`: the inbound message is
   settled with the attempt's outcome and the attempt's events are on `to`. *)
BusAfter(from, to, m, outcome, bodies) ==
    /\ streams' = [streams EXCEPT ![from] = Settled(@, m, outcome),
                                  ![to] = PublishAll(@, bodies)]
    /\ parked' = IF Parks(outcome, m.n)
                 THEN [parked EXCEPT ![from] = @ (+) SetToBag({m.body})]
                 ELSE parked
    /\ emitted' = [emitted EXCEPT ![to] = Emitted(@, bodies)]

Charge(f) ==
    /\ f.kind # "none" => faults < MaxFaults
    /\ faults' = IF f.kind = "none" THEN faults ELSE faults + 1

----------------------------------------------------------------------------
(* The document store under update_one(filter, {"$set": doc}, upsert=True), the
   write of enrich_context and generate_creative.  The store matches the filter
   and then either sets the fields on the first match or inserts a new
   document; two callers may be between the two steps at once (an attempt still
   awaiting when ack_wait redelivers its message, or two worker instances). *)

Collections == {"context_packs", "creatives"}

(* create_index([("campaign_id", 1), ("locale", 1)], unique=True) exists for
   context_packs only *)
Unique(col) == col = "context_packs"

Callers == 1..MaxCallers

(* What an attempt computed: the LLM output and the timestamps it stamps *)
Contents == {"v1", "v2"}

StoreKeys == {CampaignId} \X Locales

NoCall == [phase |-> "idle", col |-> "", key |-> <<>>, content |-> "", same |-> FALSE]

(* The fields of the $set document *)
Fields(key, content) == [campaign_id |-> key[1], locale |-> key[2], content |-> content]

(* The positions of the documents of a collection the filter matches *)
Matches(col, key) ==
    {i \in 1..Len(stored[col]) :
        stored[col][i].campaign_id = key[1] /\ stored[col][i].locale = key[2]}

First(S) == CHOOSE i \in S : \A j \in S : i <= j

(* A $set that would also give the document a new _id *)
SetWithNewId(doc, fields) ==
    [f \in DOMAIN doc |->
        IF f \in DOMAIN fields THEN fields[f] ELSE doc[f] + 1]

(* $set: the named fields take the given values, the others (_id) stay *)
Set(doc, fields) ==
    [f \in DOMAIN doc |-> IF f \in DOMAIN fields THEN fields[f] ELSE doc[f]]

(* The insert of an upsert: the filter's and the $set's fields under a fresh _id *)
NewDoc(col, fields) ==
    [_id |-> Len(stored[col]) + 1, campaign_id |-> fields.campaign_id,
     locale |-> fields.locale, content |-> fields.content]

UpdateOneBegin(w, col, key, content) ==
    /\ calls[w].phase = "idle"
    /\ calls' = [calls EXCEPT ![w] = [phase |-> "match", col |-> col, key |-> key,
                                      content |-> content, same |-> FALSE]]
    /\ UNCHANGED <<stored, pipeline, overlays, brief, requests, creating>>

UpdateOneMatch(w) ==
    /\ calls[w].phase = "match"
    /\ calls' = [calls EXCEPT ![w].phase =
                    IF Matches(calls[w].col, calls[w].key) = {} THEN "insert" ELSE "set"]
    /\ UNCHANGED <<stored, pipeline, overlays, brief, requests, creating>>

(* The write.  An insert that meets a document of its key under the unique
   index is refused with a duplicate key error and the upsert is run again as
   an update. *)
UpdateOneWrite(w) ==
    LET c == calls[w]
        found == Matches(c.col, c.key)
        fields == Fields(c.key, c.content)
    IN  /\ c.phase \in {"set", "insert"}
        /\ IF c.phase = "set" \/ (Unique(c.col) /\ found # {})
           THEN /\ stored' = [stored EXCEPT ![c.col][First(found)] = Set(@, fields)]
                /\ calls' = [calls EXCEPT ![w].phase = "done",
                                          ![w].same = (stored[c.col][First(found)].content
                                                       = c.content)]
           ELSE /\ stored' = [stored EXCEPT ![c.col] = Append(@, NewDoc(c.col, fields))]
                /\ calls' = [calls EXCEPT ![w].phase = "done"]
        /\ UNCHANGED <<pipeline, overlays, brief, requests, creating>>

StoreNext ==
    \/ \E w \in Callers : \E col \in Collections : \E key \in StoreKeys :
           \E content \in Contents : UpdateOneBegin(w, col, key, content)
    \/ \E w \in Callers : UpdateOneMatch(w)
    \/ \E w \in Callers : UpdateOneWrite(w)

----------------------------------------------------------------------------
(* The audience a ContextEnrichRequest carries: orchestrate_campaign resolves
   it from campaign.localization.audience_{locale}, a dict, or from
   campaign.audience when the locale has none. *)

AudienceKeys == {"region", "audience", "age_min", "age_max"}

(* campaign.audience *)
CampaignAudiences ==
    [region : {"Global"}, audience : {"Young professionals"},
     age_min : {None, 25}, age_max : {None, 45}]

(* The values of audience_{locale}, different for each locale and from the
   campaign's *)
OverrideValue(loc, k) ==
    CASE k = "region" -> IF loc = "en" THEN "North America" ELSE "Germany"
      [] k = "audience" -> IF loc = "en" THEN "Students" ELSE "Berufstaetige"
      [] k = "age_min" -> IF loc = "en" THEN 18 ELSE 30
      [] OTHER -> IF loc = "en" THEN 35 ELSE 60

(* audience_{locale}: a dict with any of the four keys, the empty dict included *)
AudienceDicts(loc) == {[k \in S |-> OverrideValue(loc, k)] : S \in SUBSET AudienceKeys}

(* campaign.localization: the locales that have an audience_{locale}, and their dicts *)
Localizations ==
    UNION {{z \in [S -> UNION {AudienceDicts(l) : l \in S}] :
               \A l \in S : z[l] \in AudienceDicts(l)} : S \in SUBSET Locales}

Briefs == [audience : CampaignAudiences, localization : Localizations]

NoBrief == [audience |-> [region |-> "", audience |-> "", age_min |-> None, age_max |-> None],
            localization |-> [l \in {} |-> [k \in {} |-> 0]]]

NoRequests == [l \in {} |-> [k \in AudienceKeys |-> 0]]

(* dict.get(k, default) *)
Get(d, k, default) == IF k \in DOMAIN d THEN d[k] ELSE default

(* v or 0 *)
OrZero(v) == IF v = None \/ v = 0 THEN 0 ELSE v

(* A resolution that would leave a field the override lacks at its protobuf
   default instead of the campaign's value *)
ResolvedAudienceWithoutFallback(b, loc) ==
    LET a == b.audience
    IN  IF loc \in DOMAIN b.localization /\ DOMAIN b.localization[loc] # {}
        THEN [region |-> Get(b.localization[loc], "region", ""),
              audience |-> Get(b.localization[loc], "audience", ""),
              age_min |-> Get(b.localization[loc], "age_min", 0),
              age_max |-> Get(b.localization[loc], "age_max", 0)]
        ELSE [region |-> a.region, audience |-> a.audience,
              age_min |-> OrZero(a.age_min), age_max |-> OrZero(a.age_max)]

(* region, audience, age_min, age_max of the request of a locale *)
ResolvedAudience(b, loc) ==
    LET a == b.audience
    IN  IF loc \in DOMAIN b.localization /\ DOMAIN b.localization[loc] # {}
        THEN [region |-> Get(b.localization[loc], "region", a.region),
              audience |-> Get(b.localization[loc], "audience", a.audience),
              age_min |-> Get(b.localization[loc], "age_min", OrZero(a.age_min)),
              age_max |-> Get(b.localization[loc], "age_max", OrZero(a.age_max))]
        ELSE [region |-> a.region, audience |-> a.audience,
              age_min |-> OrZero(a.age_min), age_max |-> OrZero(a.age_max)]

(* One turn of the fan-out loop as far as the audience goes: the request of
   the next locale is built *)
ResolveAudience(loc) ==
    /\ loc \notin DOMAIN requests
    /\ requests' = [l \in DOMAIN requests \cup {loc} |->
                       IF l = loc THEN ResolvedAudience(brief, loc) ELSE requests[l]]
    /\ UNCHANGED <<pipeline, stored, calls, overlays, brief, creating>>

AudienceNext == \E loc \in Locales : ResolveAudience(loc)

----------------------------------------------------------------------------
(* Text overlay attempts running at once *)

Overlayers == 1..MaxOverlayers

(* The create_campaign handlers running at once *)
Creators == 1..MaxCreators

NoCreate == [phase |-> "idle", request |-> [campaign_id |-> "", target_locales |-> <<>>,
                                            aspect_ratios |-> <<>>]]

NoOverlay == [phase |-> "idle", body |-> [correlation_id |-> "", campaign_id |-> "",
                                          locale |-> "", aspect_ratio |-> "-",
                                          uploaded |-> FALSE],
              all_complete |-> FALSE]

----------------------------------------------------------------------------
InitPipeline ==
    /\ campaigns = [c \in CampaignIds |-> NoCampaign]
    /\ context_packs = [k \in CampaignIds \X Locales |-> 0]
    /\ creatives = [k \in CampaignIds \X Locales |-> 0]
    /\ images = [k \in CampaignIds \X Locales \X AspectRatios |-> 0]
    /\ branded_images = [k \in CampaignIds \X Locales |-> 0]
    /\ streams = [s \in Subjects |-> EmptyBag]
    /\ parked = [s \in Subjects |-> EmptyBag]
    /\ briefs = 0
    /\ orch = [state |-> "none", idx |-> 0]
    /\ response = 0
    /\ now = 0
    /\ faults = 0
    /\ injected = FALSE
    /\ last = NoAttempt
    /\ emitted = [s \in Subjects |-> EmptyBag]

InitStore ==
    /\ stored = [col \in Collections |-> <<>>]
    /\ calls = [w \in Callers |-> NoCall]

Init ==
    /\ InitPipeline
    /\ InitStore
    /\ overlays = [w \in Overlayers |-> NoOverlay]
    /\ brief = NoBrief
    /\ requests = NoRequests
    /\ creating = [w \in Creators |-> NoCreate]

----------------------------------------------------------------------------
(* Gateway *)

CreateFaults == {NoFault, Fault("insert", 0), Fault("publish", 0)}

(* A create that would answer 409 and store the new brief over the old one *)
CreateCampaignOverwriting(req, f) ==
    /\ Charge(f)
    /\ IF Exists(req.campaign_id)
       THEN /\ f = NoFault
            /\ response' = 409
            /\ campaigns' = [campaigns EXCEPT
                                ![req.campaign_id] = NewCampaign(req, CorrelationId)]
            /\ UNCHANGED <<briefs, orch>>
       ELSE IF f.kind = "insert"
       THEN /\ response' = 500
            /\ UNCHANGED <<campaigns, briefs, orch>>
       ELSE /\ campaigns' = [campaigns EXCEPT
                                ![req.campaign_id] = NewCampaign(req, CorrelationId)]
            /\ IF f.kind = "publish"
               THEN /\ response' = 500
                    /\ UNCHANGED <<briefs, orch>>
               ELSE /\ briefs' = briefs + 1
                    /\ orch' = [state |-> "running", idx |-> 1]
                    /\ response' = 202
    /\ UNCHANGED <<context_packs, creatives, images, branded_images, streams, parked,
                   now, injected, last, emitted,
                   stored, calls, overlays, brief, requests, creating>>

(* POST /campaigns *)
CreateCampaign(req, f) ==
    /\ Charge(f)
    /\ IF Exists(req.campaign_id)
       THEN /\ f = NoFault
            /\ response' = 409
            /\ UNCHANGED <<campaigns, briefs, orch>>
       ELSE IF f.kind = "insert"
       THEN /\ response' = 500
            /\ UNCHANGED <<campaigns, briefs, orch>>
       ELSE /\ campaigns' = [campaigns EXCEPT
                                ![req.campaign_id] = NewCampaign(req, CorrelationId)]
            /\ IF f.kind = "publish"
               THEN /\ response' = 500
                    /\ UNCHANGED <<briefs, orch>>
               ELSE /\ briefs' = briefs + 1
                    /\ orch' = [state |-> "running", idx |-> 1]
                    /\ response' = 202
    /\ UNCHANGED <<context_packs, creatives, images, branded_images, streams, parked,
                   now, injected, last, emitted,
                   stored, calls, overlays, brief, requests, creating>>

OrchestrateFaults == {NoFault, Fault("publish", 0)}

(* A fan-out whose except branch would leave the status alone *)
OrchestrateStepNotMarkingFailed(f) ==
    /\ orch.state = "running"
    /\ Charge(f)
    /\ LET c == campaigns[CampaignId]
           loc == c.target_locales[orch.idx]
       IN  IF f.kind = "publish"
           THEN /\ orch' = [orch EXCEPT !.state = "failed"]
                /\ UNCHANGED <<campaigns, streams, emitted>>
           ELSE /\ streams' = [streams EXCEPT ![CONTEXT_ENRICH_REQUEST_SUBJECT] =
                                  PublishAll(@, <<Body(CampaignId, loc, c.correlation_id,
                                                       NoRatio, FALSE)>>)]
                /\ emitted' = [emitted EXCEPT ![CONTEXT_ENRICH_REQUEST_SUBJECT] =
                                  Emitted(@, <<Body(CampaignId, loc, c.correlation_id,
                                                    NoRatio, FALSE)>>)]
                /\ orch' = IF orch.idx = Len(c.target_locales)
                           THEN [orch EXCEPT !.state = "done"]
                           ELSE [orch EXCEPT !.idx = @ + 1]
                /\ UNCHANGED campaigns
    /\ UNCHANGED <<context_packs, creatives, images, branded_images, parked, briefs,
                   response, now, injected, last,
                   stored, calls, overlays, brief, requests, creating>>

(* A fan-out that would stop after the first locale *)
OrchestrateStepFirstLocaleOnly(f) ==
    /\ orch.state = "running"
    /\ Charge(f)
    /\ LET c == campaigns[CampaignId]
           loc == c.target_locales[orch.idx]
       IN  IF f.kind = "publish"
           THEN /\ campaigns' = [campaigns EXCEPT ![CampaignId].status = FAILED]
                /\ orch' = [orch EXCEPT !.state = "failed"]
                /\ UNCHANGED <<streams, emitted>>
           ELSE /\ streams' = [streams EXCEPT ![CONTEXT_ENRICH_REQUEST_SUBJECT] =
                                  PublishAll(@, <<Body(CampaignId, loc, c.correlation_id,
                                                       NoRatio, FALSE)>>)]
                /\ emitted' = [emitted EXCEPT ![CONTEXT_ENRICH_REQUEST_SUBJECT] =
                                  Emitted(@, <<Body(CampaignId, loc, c.correlation_id,
                                                    NoRatio, FALSE)>>)]
                /\ orch' = [orch EXCEPT !.state = "done"]
                /\ UNCHANGED campaigns
    /\ UNCHANGED <<context_packs, creatives, images, branded_images, parked, briefs,
                   response, now, injected, last,
                   stored, calls, overlays, brief, requests, creating>>

(* orchestrate_campaign: one turn of the loop over target_locales, or the
   except branch when the publish of that turn raises *)
OrchestrateStep(f) ==
    /\ orch.state = "running"
    /\ Charge(f)
    /\ LET c == campaigns[CampaignId]
           loc == c.target_locales[orch.idx]
       IN  IF f.kind = "publish"
           THEN /\ campaigns' = [campaigns EXCEPT ![CampaignId].status = FAILED]
                /\ orch' = [orch EXCEPT !.state = "failed"]
                /\ UNCHANGED <<streams, emitted>>
           ELSE /\ streams' = [streams EXCEPT ![CONTEXT_ENRICH_REQUEST_SUBJECT] =
                                  PublishAll(@, <<Body(CampaignId, loc, c.correlation_id,
                                                       NoRatio, FALSE)>>)]
                /\ emitted' = [emitted EXCEPT ![CONTEXT_ENRICH_REQUEST_SUBJECT] =
                                  Emitted(@, <<Body(CampaignId, loc, c.correlation_id,
                                                    NoRatio, FALSE)>>)]
                /\ orch' = IF orch.idx = Len(c.target_locales)
                           THEN [orch EXCEPT !.state = "done"]
                           ELSE [orch EXCEPT !.idx = @ + 1]
                /\ UNCHANGED campaigns
    /\ UNCHANGED <<context_packs, creatives, images, branded_images, parked, briefs,
                   response, now, injected, last,
                   stored, calls, overlays, brief, requests, creating>>

(* scripts/test_creative_generator.py, send_test_message: one
   context.enrich.ready message for a campaign id the gateway never stored *)
SendTestMessage ==
    /\ ~injected
    /\ injected' = TRUE
    /\ streams' = [streams EXCEPT ![CONTEXT_ENRICH_READY_SUBJECT] =
                      PublishAll(@, <<Body(TestCampaignId, "en", TestCorrelationId,
                                           NoRatio, FALSE)>>)]
    /\ emitted' = [emitted EXCEPT ![CONTEXT_ENRICH_READY_SUBJECT] =
                      Emitted(@, <<Body(TestCampaignId, "en", TestCorrelationId,
                                        NoRatio, FALSE)>>)]
    /\ UNCHANGED <<campaigns, context_packs, creatives, images, branded_images, parked,
                   briefs, orch, response, now, faults, last,
                   stored, calls, overlays, brief, requests, creating>>

----------------------------------------------------------------------------
(* create_campaign handlers running at once for one campaign_id.  A handler
   gives way to the others at each of its awaits: the find_one, the insert_one
   and the briefs.ingested publish. *)

beside_create == <<context_packs, creatives, images, branded_images, streams, parked,
                   now, faults, injected, last, emitted,
                   stored, calls, overlays, brief, requests>>

(* A collection that would take a second document under an _id it holds *)
DuplicateKeyNever(cid) == FALSE

(* insert_one of a document whose _id the collection holds raises
   DuplicateKeyError: campaign_dict["_id"] = request.campaign_id *)
DuplicateKey(cid) == Exists(cid)

(* existing = await db.campaigns.find_one({"_id": request.campaign_id}) *)
CreateFind(w, req) ==
    /\ creating[w].phase = "idle"
    /\ creating' = [creating EXCEPT ![w] =
                       [phase |-> IF Exists(req.campaign_id) THEN "conflict" ELSE "insert",
                        request |-> req]]
    /\ response' = IF Exists(req.campaign_id) THEN 409 ELSE response
    /\ UNCHANGED <<campaigns, briefs, orch, beside_create>>

(* await db.campaigns.insert_one(campaign_dict) *)
CreateInsert(w) ==
    LET req == creating[w].request
    IN  /\ creating[w].phase = "insert"
        /\ IF DuplicateKey(req.campaign_id)
           THEN /\ creating' = [creating EXCEPT ![w].phase = "error"]
                /\ response' = 500
                /\ UNCHANGED campaigns
           ELSE /\ creating' = [creating EXCEPT ![w].phase = "publish"]
                /\ campaigns' = [campaigns EXCEPT
                                    ![req.campaign_id] = NewCampaign(req, CorrelationId)]
                /\ UNCHANGED response
        /\ UNCHANGED <<briefs, orch, beside_create>>

(* await briefs_ingested_publisher.publish(brief_pb); asyncio.create_task(
   orchestrate_campaign(campaign, correlation_id)); return 202 *)
CreateAccept(w) ==
    /\ creating[w].phase = "publish"
    /\ creating' = [creating EXCEPT ![w].phase = "accepted"]
    /\ briefs' = briefs + 1
    /\ orch' = [state |-> "running", idx |-> 1]
    /\ response' = 202
    /\ UNCHANGED <<campaigns, beside_create>>

CreateNext ==
    \/ \E w \in Creators : \E req \in Requests : CreateFind(w, req)
    \/ \E w \in Creators : CreateInsert(w)
    \/ \E w \in Creators : CreateAccept(w)

----------------------------------------------------------------------------
(* Store primitives *)

(* A write that would store nothing *)
UpsertNothing(n) == n

(* update_one(key, {"$set": doc}, upsert=True) on a collection that holds n
   documents of the key *)
Upsert(n) == IF n = 0 THEN 1 ELSE n

(* An insert that would store its document twice *)
InsertTwice(n) == n + 2

(* insert_one(doc) *)
Insert(n) == n + 1

Key(b) == <<b.campaign_id, b.locale>>

Attempt(stage, m, path, called, written, published, due, outcome) ==
    [stage |-> stage, body |-> m.body, delivery |-> m.n + 1, path |-> path,
     called |-> called, written |-> written, published |-> published, due |-> due,
     outcome |-> outcome]

----------------------------------------------------------------------------
(* Context enrichment: enrich_context, handle_enrich_request *)

EnrichFaults == {NoFault, Fault("external", 0), Fault("store", 0), Fault("publish", 0)}

(* try: enrich_context; ack  /  except: nak *)
EnrichOutcome(path) == IF path = "ok" THEN "ack" ELSE "nak"

EnrichPath(f) == IF f.kind = "none" THEN "ok" ELSE f.kind

EnrichAttempt(m, f) ==
    LET path == EnrichPath(f)
        called == IF path = "external" THEN 0 ELSE 1
        written == IF path \in {"ok", "publish"} THEN 1 ELSE 0
        ready == IF path = "ok"
                 THEN <<Body(m.body.campaign_id, m.body.locale, m.body.correlation_id,
                             NoRatio, FALSE)>>
                 ELSE <<>>
        outcome == EnrichOutcome(path)
    IN  /\ Charge(f)
        /\ context_packs' = IF written = 1
                            THEN [context_packs EXCEPT ![Key(m.body)] = Upsert(@)]
                            ELSE context_packs
        /\ BusAfter(CONTEXT_ENRICH_REQUEST_SUBJECT, CONTEXT_ENRICH_READY_SUBJECT,
                    m, outcome, ready)
        /\ last' = Attempt("enrich", m, path, called, written, Len(ready), 1, outcome)
        /\ UNCHANGED <<campaigns, creatives, images, branded_images, briefs, orch,
                       response, now, injected,
                       stored, calls, overlays, brief, requests, creating>>

----------------------------------------------------------------------------
(* Creative generation: generate_creative, handle_creative_request *)

CreativeFaults == {NoFault, Fault("external", 0), Fault("store", 0), Fault("publish", 0)}

(* try: generate_creative; publish; ack  /  except: nak *)
CreativeOutcome(path) == IF path = "ok" THEN "ack" ELSE "nak"

CreativePath(f) == IF f.kind = "none" THEN "ok" ELSE f.kind

CreativeAttempt(m, f) ==
    LET path == CreativePath(f)
        called == IF path = "external" THEN 0 ELSE 1
        written == IF path \in {"ok", "publish"} THEN 1 ELSE 0
        done == IF path = "ok"
                THEN <<Body(m.body.campaign_id, m.body.locale, m.body.correlation_id,
                            NoRatio, FALSE)>>
                ELSE <<>>
        outcome == CreativeOutcome(path)
    IN  /\ Charge(f)
        /\ creatives' = IF written = 1
                        THEN [creatives EXCEPT ![Key(m.body)] = Upsert(@)]
                        ELSE creatives
        /\ BusAfter(CONTEXT_ENRICH_READY_SUBJECT, CREATIVE_GENERATE_DONE_SUBJECT,
                    m, outcome, done)
        /\ last' = Attempt("creative", m, path, called, written, Len(done), 1, outcome)
        /\ UNCHANGED <<campaigns, context_packs, images, branded_images, briefs, orch,
                       response, now, injected,
                       stored, calls, overlays, brief, requests, creating>>

----------------------------------------------------------------------------
(* Image generation: generate_image, handle_creative_request *)

ImageFaults(N) ==
    {NoFault, Fault("campaign_missing", 0), Fault("creative_missing", 0)}
    \cup {Fault(k, i) : k \in {"external", "download", "store", "publish"}, i \in 1..N}

(* A generate_image that would return None for a campaign marked FAILED *)
ImagePathFenced(b, f) ==
    IF ~Exists(b.campaign_id) \/ f.kind = "campaign_missing" THEN "campaign_missing"
    ELSE IF campaigns[b.campaign_id].status = FAILED THEN "campaign_missing"
    ELSE IF creatives[Key(b)] = 0 \/ f.kind = "creative_missing" THEN "creative_missing"
    ELSE IF f.kind = "none" THEN "ok"
    ELSE f.kind

(* The return None branches of generate_image come first; a failing call only
   happens on an attempt that found both documents.  What find_one returns is
   the store's answer: None for a document never written, and None as well
   for one the store does not hold any more. *)
ImagePath(b, f) ==
    IF ~Exists(b.campaign_id) \/ f.kind = "campaign_missing" THEN "campaign_missing"
    ELSE IF creatives[Key(b)] = 0 \/ f.kind = "creative_missing" THEN "creative_missing"
    ELSE IF f.kind = "none" THEN "ok"
    ELSE f.kind

(* A handler that would ack after its publish loop broke off *)
ImageOutcomeAckAfterPublishFailure(path) ==
    IF path \in {"ok", "campaign_missing", "creative_missing", "publish"} THEN "ack" ELSE "nak"

(* try: result = generate_image; if result: publish each; ack  /  except: nak *)
ImageOutcome(path) ==
    IF path \in {"ok", "campaign_missing", "creative_missing"} THEN "ack" ELSE "nak"

(* A generation loop that would return its last image without inserting it *)
ImagesInsertedAllButLast(path, at, N) ==
    CASE path \in {"campaign_missing", "creative_missing"} -> 0
      [] path \in {"external", "download", "store"} -> at - 1
      [] OTHER -> N - 1

(* How many turns of the generation loop got to insert_one *)
ImagesInserted(path, at, N) ==
    CASE path \in {"campaign_missing", "creative_missing"} -> 0
      [] path \in {"external", "download", "store"} -> at - 1
      [] OTHER -> N

(* A generation loop that would call images.generate a second time for every
   aspect ratio *)
ImagesCalledTwicePerRatio(path, at, N) ==
    CASE path \in {"campaign_missing", "creative_missing"} -> 0
      [] path = "external" -> 2 * (at - 1)
      [] path \in {"download", "store"} -> 2 * at
      [] OTHER -> 2 * N

(* How many images.generate calls returned *)
ImagesCalled(path, at, N) ==
    CASE path \in {"campaign_missing", "creative_missing"} -> 0
      [] path = "external" -> at - 1
      [] path \in {"download", "store"} -> at
      [] OTHER -> N

(* A publish loop that would stop after its first event *)
ImagesPublishedFirstOnly(path, at, N) ==
    CASE path = "ok" -> 1
      [] path = "publish" -> at - 1
      [] OTHER -> 0

(* How many turns of the publish loop were accepted by the broker *)
ImagesPublished(path, at, N) ==
    CASE path = "ok" -> N
      [] path = "publish" -> at - 1
      [] OTHER -> 0

ImageAttempt(m, f) ==
    LET b == m.body
        c == campaigns[b.campaign_id]
        ratios == c.aspect_ratios
        N == Len(ratios)
        path == ImagePath(b, f)
        inserted == ImagesInserted(path, f.at, N)
        published == ImagesPublished(path, f.at, N)
        events == [i \in 1..published |-> Body(b.campaign_id, b.locale, "", ratios[i], FALSE)]
        outcome == ImageOutcome(path)
    IN  /\ Charge(f)
        /\ f.at <= N
        /\ f.kind # "none" => path = f.kind
        /\ f.kind = "campaign_missing" => Exists(b.campaign_id)
        /\ f.kind = "creative_missing" => creatives[Key(b)] > 0
        /\ images' = [k \in DOMAIN images |->
                        IF k[1] = b.campaign_id /\ k[2] = b.locale
                           /\ \E i \in 1..inserted : ratios[i] = k[3]
                        THEN Insert(images[k]) ELSE images[k]]
        /\ BusAfter(CREATIVE_GENERATE_DONE_SUBJECT, IMAGE_GENERATED_SUBJECT,
                    m, outcome, events)
        /\ last' = Attempt("image", m, path, ImagesCalled(path, f.at, N), inserted,
                           published, N, outcome)
        /\ UNCHANGED <<campaigns, context_packs, creatives, branded_images, briefs, orch,
                       response, now, injected,
                       stored, calls, overlays, brief, requests, creating>>

----------------------------------------------------------------------------
(* Brand composition: compose_brand_elements, handle_image_generated *)

BrandFaults == {NoFault, Fault("campaign_missing", 0), Fault("download", 0),
                Fault("llm", 0), Fault("logo", 0), Fault("upload", 0),
                Fault("store", 0), Fault("publish", 0)}

BrandPath(b, f) ==
    IF ~Exists(b.campaign_id) \/ f.kind = "campaign_missing" THEN "campaign_missing"
    ELSE IF f.kind = "none" THEN "ok"
    ELSE f.kind

(* The failures compose_brand_elements and analyze_logo_placement catch and
   carry on from: the placement call, the logo download, the branded upload *)
BrandSwallowed == {"llm", "logo", "upload"}

(* try: result = compose_brand_elements; if result: publish; ack  /  except: nak *)
BrandOutcome(path) ==
    IF path \in {"ok", "campaign_missing"} \cup BrandSwallowed THEN "ack" ELSE "nak"

BrandAttempt(m, f) ==
    LET b == m.body
        path == BrandPath(b, f)
        called == IF path \in {"ok", "logo", "upload", "store", "publish"} THEN 1 ELSE 0
        written == IF path \in {"ok", "publish"} \cup BrandSwallowed THEN 1 ELSE 0
        events == IF path \in {"ok"} \cup BrandSwallowed
                  THEN <<Body(b.campaign_id, b.locale, "", b.aspect_ratio, path # "upload")>>
                  ELSE <<>>
        outcome == BrandOutcome(path)
    IN  /\ Charge(f)
        /\ f.kind # "none" => path = f.kind
        /\ f.kind = "campaign_missing" => Exists(b.campaign_id)
        /\ branded_images' = IF written = 1
                             THEN [branded_images EXCEPT ![Key(b)] = Insert(@)]
                             ELSE branded_images
        /\ BusAfter(IMAGE_GENERATED_SUBJECT, BRAND_COMPOSED_SUBJECT, m, outcome, events)
        /\ last' = Attempt("brand", m, path, called, written, Len(events), 1, outcome)
        /\ UNCHANGED <<campaigns, context_packs, creatives, images, briefs, orch,
                       response, now, injected,
                       stored, calls, overlays, brief, requests, creating>>

----------------------------------------------------------------------------
(* Text overlay: overlay_text_on_image, handle_brand_composed *)

TextFaults == {NoFault, Fault("campaign_missing", 0), Fault("creative_missing", 0),
               Fault("download", 0), Fault("llm", 0), Fault("upload", 0),
               Fault("store", 0), Fault("publish", 0)}

(* get_object on a branded_s3_uri whose upload brand composition gave up on
   raises like a failing download. *)
TextPath(b, f) ==
    IF ~Exists(b.campaign_id) \/ f.kind = "campaign_missing" THEN "campaign_missing"
    ELSE IF creatives[Key(b)] = 0 \/ f.kind = "creative_missing" THEN "creative_missing"
    ELSE IF ~b.uploaded \/ f.kind = "download" THEN "download"
    ELSE IF f.kind = "none" THEN "ok"
    ELSE f.kind

(* analyze_text_placement catches the failure of its call and returns a default *)
TextSwallowed == {"llm"}

(* try: result = overlay_text_on_image; if result: publish  /  except: log.
   Neither branch calls msg.ack() or msg.nak(). *)
TextOutcome(path) == "none"

(* A completion check that would be satisfied by the first finished locale *)
AnyComplete(c) ==
    \E i \in 1..Len(c.target_locales) : c.outputs[c.target_locales[i]] # NullUrl

(* all(outputs.get(loc, {}).get('final_image_url') is not None for loc in target_locales) *)
AllComplete(c) ==
    \A i \in 1..Len(c.target_locales) : c.outputs[c.target_locales[i]] # NullUrl

(* A write that would store a new outputs document holding its locale only *)
SetOutputsWhole(c, loc, url) ==
    [c EXCEPT !.outputs = [l \in Locales |-> IF l = loc THEN url ELSE NullUrl]]

(* An initialisation that would store an empty outputs object whatever the
   document holds *)
EnsureOutputsAlways(c) == [c EXCEPT !.outputs = [l \in Locales |-> NullUrl]]

(* update_one({"_id": campaign_id, "outputs": None}, {"$set": {"outputs": {}}}):
   the filter matches a document whose outputs is null or missing, which holds
   no final image of any locale *)
EnsureOutputs(c) ==
    IF \A l \in Locales : c.outputs[l] = NullUrl
    THEN [c EXCEPT !.outputs = [l \in Locales |-> NullUrl]]
    ELSE c

(* update_one({"_id": campaign_id}, {"$set": {"outputs.{locale}.final_image_url": ..., ...}}) *)
SetOutput(c, loc, url) == [c EXCEPT !.outputs[loc] = url]

(* A completion that would set the status and leave completed_at alone *)
MarkCompletedWithoutTime(c, t) == [c EXCEPT !.status = COMPLETED]

(* update_one({"_id": campaign_id}, {"$set": {"status": "completed", "completed_at": now}}) *)
MarkCompleted(c, t) == [c EXCEPT !.status = COMPLETED, !.completed_at = t]

(* An overlay that would store a new outputs document holding its locale only *)
OverlaidReplacingOutputs(c, loc, url, t) ==
    LET c1 == [c EXCEPT !.outputs = [l \in Locales |-> IF l = loc THEN url ELSE NullUrl]]
    IN  IF AllComplete(c1)
        THEN [c1 EXCEPT !.status = COMPLETED, !.completed_at = t]
        ELSE c1

(* An overlay that would mark the campaign FAILED while locales are missing *)
OverlaidMarkingFailed(c, loc, url, t) ==
    LET c1 == [c EXCEPT !.outputs[loc] = url]
    IN  IF AllComplete(c1)
        THEN [c1 EXCEPT !.status = COMPLETED, !.completed_at = t]
        ELSE [c1 EXCEPT !.status = FAILED]

(* The update_one that initialises outputs, the update_one on
   outputs.{locale}.*, then the completion check and its update_one on status
   and completed_at *)
Overlaid(c, loc, url, t) ==
    LET c1 == SetOutput(EnsureOutputs(c), loc, url)
    IN  IF AllComplete(c1) THEN MarkCompleted(c1, t) ELSE c1

(* datetime.now(timezone.utc): not earlier than the previous read *)
Clock == {t \in now..MaxClock : t <= now + 1}

TextAttempt(m, f, t) ==
    LET b == m.body
        path == TextPath(b, f)
        called == IF path \in {"ok", "upload", "store", "publish"} THEN 1 ELSE 0
        written == IF path \in {"ok", "publish"} \cup TextSwallowed THEN 1 ELSE 0
        events == IF path \in {"ok"} \cup TextSwallowed
                  THEN <<Body(b.campaign_id, b.locale, "", b.aspect_ratio, TRUE)>>
                  ELSE <<>>
        outcome == TextOutcome(path)
    IN  /\ Charge(f)
        /\ f.kind # "none" => path = f.kind
        /\ f.kind = "campaign_missing" => Exists(b.campaign_id)
        /\ f.kind = "creative_missing" => creatives[Key(b)] > 0
        /\ f.kind = "download" => b.uploaded
        /\ written = 0 => t = now
        /\ campaigns' = IF written = 1
                        THEN [campaigns EXCEPT ![b.campaign_id] =
                                 Overlaid(@, b.locale, b.aspect_ratio, t)]
                        ELSE campaigns
        /\ now' = t
        /\ BusAfter(BRAND_COMPOSED_SUBJECT, TEXT_OVERLAID_SUBJECT, m, outcome, events)
        /\ last' = Attempt("text", m, path, called, written, Len(events), 1, outcome)
        /\ UNCHANGED <<context_packs, creatives, images, branded_images, briefs, orch,
                       response, injected,
                       stored, calls, overlays, brief, requests, creating>>

----------------------------------------------------------------------------
(* Text overlay attempts running at once on several worker instances.  The
   end of overlay_text_on_image is three steps on the campaign document: the
   update_one on outputs.{locale}.*, the find_one that reads the document back,
   and the update_one on status when the document read has every locale. *)

beside_campaigns == <<context_packs, creatives, images, branded_images, streams, parked,
                      briefs, orch, response, now, faults, injected, last, emitted,
                      stored, calls, brief, requests, creating>>

(* The attempt of w on one of the unacknowledged BrandComposed messages *)
OverlayWrite(w) ==
    /\ overlays[w].phase = "idle"
    /\ \E m \in BagToSet(streams[BRAND_COMPOSED_SUBJECT]) :
           /\ Exists(m.body.campaign_id)
           /\ campaigns' = [campaigns EXCEPT ![m.body.campaign_id] =
                               SetOutput(EnsureOutputs(@), m.body.locale,
                                         m.body.aspect_ratio)]
           /\ overlays' = [overlays EXCEPT ![w] = [phase |-> "wrote", body |-> m.body,
                                                   all_complete |-> FALSE]]
    /\ UNCHANGED beside_campaigns

OverlayRead(w) ==
    /\ overlays[w].phase = "wrote"
    /\ overlays' = [overlays EXCEPT ![w].phase = "read",
                                    ![w].all_complete =
                                        AllComplete(campaigns[overlays[w].body.campaign_id])]
    /\ UNCHANGED <<campaigns, beside_campaigns>>

OverlayMark(w) ==
    /\ overlays[w].phase = "read"
    /\ campaigns' = IF overlays[w].all_complete
                    THEN [campaigns EXCEPT ![overlays[w].body.campaign_id] =
                             MarkCompleted(@, now)]
                    ELSE campaigns
    /\ overlays' = [overlays EXCEPT ![w].phase = "done"]
    /\ UNCHANGED beside_campaigns

OverlayNext ==
    \/ \E w \in Overlayers : OverlayWrite(w)
    \/ \E w \in Overlayers : OverlayRead(w)
    \/ \E w \in Overlayers : OverlayMark(w)

(* The pipeline when brand composition has handled every image of the campaign
   of request r, its attempt on (loc, ar) last, and no BrandComposed message
   has been handed to text overlay yet *)
BrandComposedAll(r, loc, ar) ==
    LET locs == {r.target_locales[i] : i \in 1..Len(r.target_locales)}
        ars == {r.aspect_ratios[j] : j \in 1..Len(r.aspect_ratios)}
        mine(k) == k[1] = CampaignId /\ k[2] \in locs
    IN  /\ loc \in locs
        /\ ar \in ars
        /\ campaigns = [c \in CampaignIds |->
                           IF c = CampaignId THEN NewCampaign(r, CorrelationId)
                           ELSE NoCampaign]
        /\ context_packs = [k \in CampaignIds \X Locales |-> IF mine(k) THEN 1 ELSE 0]
        /\ creatives = [k \in CampaignIds \X Locales |-> IF mine(k) THEN 1 ELSE 0]
        /\ images = [k \in CampaignIds \X Locales \X AspectRatios |->
                        IF mine(k) /\ k[3] \in ars THEN 1 ELSE 0]
        /\ branded_images = [k \in CampaignIds \X Locales |->
                                IF mine(k) THEN Cardinality(ars) ELSE 0]
        /\ streams = [s \in Subjects |->
                         IF s = BRAND_COMPOSED_SUBJECT
                         THEN SetToBag({[body |-> Body(CampaignId, l, "", a, TRUE), n |-> 0] :
                                           l \in locs, a \in ars})
                         ELSE EmptyBag]
        /\ parked = [s \in Subjects |-> EmptyBag]
        /\ briefs = 1
        /\ orch = [state |-> "done", idx |-> Len(r.target_locales)]
        /\ response = 202
        /\ now = 0
        /\ faults = 0
        /\ injected = FALSE
        /\ last = Attempt("brand", [body |-> Body(CampaignId, loc, "", ar, FALSE), n |-> 0],
                          "ok", 1, 1, 1, 1, "ack")
        /\ emitted = [s \in Subjects |->
                         CASE s = IMAGE_GENERATED_SUBJECT ->
                                  SetToBag({Body(CampaignId, l, "", a, FALSE) :
                                               l \in locs, a \in ars})
                           [] s = BRAND_COMPOSED_SUBJECT ->
                                  SetToBag({Body(CampaignId, l, "", a, TRUE) :
                                               l \in locs, a \in ars})
                           [] s = TEXT_OVERLAID_SUBJECT -> EmptyBag
                           [] OTHER ->
                                  SetToBag({Body(CampaignId, l, CorrelationId, NoRatio, FALSE) :
                                               l \in locs})]

InitOverlay ==
    /\ \E r \in Requests : \E loc \in Locales : \E ar \in AspectRatios :
           BrandComposedAll(r, loc, ar)
    /\ InitStore
    /\ overlays = [w \in Overlayers |-> NoOverlay]
    /\ brief = NoBrief
    /\ requests = NoRequests
    /\ creating = [w \in Creators |-> NoCreate]

InitAudience ==
    /\ InitPipeline
    /\ InitStore
    /\ overlays = [w \in Overlayers |-> NoOverlay]
    /\ brief \in Briefs
    /\ requests = NoRequests
    /\ creating = [w \in Creators |-> NoCreate]

----------------------------------------------------------------------------
(* The system.  R: the create requests clients send; F: the call failures the
   environment produces. *)

AllFaults == CreateFaults \cup OrchestrateFaults \cup EnrichFaults \cup CreativeFaults
             \cup ImageFaults(2) \cup BrandFaults \cup TextFaults

Gateway(R, F) ==
    \/ \E req \in R : \E f \in CreateFaults \cap F : CreateCampaign(req, f)
    \/ \E f \in OrchestrateFaults \cap F : OrchestrateStep(f)

Enrich(F) ==
    \E m \in Deliverable(CONTEXT_ENRICH_REQUEST_SUBJECT) :
        \E f \in EnrichFaults \cap F : EnrichAttempt(m, f)

Creative(F) ==
    \E m \in Deliverable(CONTEXT_ENRICH_READY_SUBJECT) :
        \E f \in CreativeFaults \cap F : CreativeAttempt(m, f)

Image(F) ==
    \E m \in Deliverable(CREATIVE_GENERATE_DONE_SUBJECT) :
        \E f \in ImageFaults(2) \cap F : ImageAttempt(m, f)

Brand(F) ==
    \E m \in Deliverable(IMAGE_GENERATED_SUBJECT) :
        \E f \in BrandFaults \cap F : BrandAttempt(m, f)

Text(F) ==
    \E m \in Deliverable(BRAND_COMPOSED_SUBJECT) :
        \E f \in TextFaults \cap F : \E t \in Clock : TextAttempt(m, f, t)

Workers(F) == Enrich(F) \/ Creative(F) \/ Image(F) \/ Brand(F) \/ Text(F)

Next == Gateway(SmallRequests, AllFaults) \/ Workers(AllFaults) \/ SendTestMessage

Spec == Init /\ [][Next]_vars

(* The system when no call fails.  Every subscriber keeps fetching and every
   started orchestration task keeps running, so each of them is weakly fair. *)
NextNoFail == Gateway(Requests, {NoFault}) \/ Workers({NoFault}) \/ SendTestMessage

SpecNoFail ==
    /\ Init
    /\ [][NextNoFail]_vars
    /\ WF_vars(OrchestrateStep(NoFault))
    /\ WF_vars(Enrich({NoFault}))
    /\ WF_vars(Creative({NoFault}))
    /\ WF_vars(Image({NoFault}))
    /\ WF_vars(Brand({NoFault}))
    /\ WF_vars(Text({NoFault}))

(* The store alone, under the update_one calls of its callers *)
SpecStore == Init /\ [][StoreNext]_vars

(* The campaign document under text overlay attempts that run at once *)
SpecOverlay == InitOverlay /\ [][OverlayNext]_vars

(* Concurrent creations of one campaign_id *)
SpecCreate == Init /\ [][CreateNext]_vars

(* The fan-out's audience resolution on every brief *)
SpecAudience == InitAudience /\ [][AudienceNext]_vars

----------------------------------------------------------------------------
(* Properties of the handlers.  `last` is the most recent handler attempt. *)

(* The subject a stage consumes *)
InSubject(stage) ==
    CASE stage = "enrich" -> CONTEXT_ENRICH_REQUEST_SUBJECT
      [] stage = "creative" -> CONTEXT_ENRICH_READY_SUBJECT
      [] stage = "image" -> CREATIVE_GENERATE_DONE_SUBJECT
      [] stage = "brand" -> IMAGE_GENERATED_SUBJECT
      [] OTHER -> BRAND_COMPOSED_SUBJECT

(* The paths on which an exception reaches the handler's except branch *)
Raised(stage, path) ==
    CASE stage \in {"enrich", "creative"} -> path \in {"external", "store", "publish"}
      [] stage = "image" -> path \in {"external", "download", "store", "publish"}
      [] stage = "brand" -> path \in {"download", "store", "publish"}
      [] stage = "text" -> path \in {"creative_missing", "download", "upload", "store",
                                     "publish"}
      [] OTHER -> FALSE

(* The terminal output slot of (locale, aspect ratio) holds a final image.  The
   document has one slot per locale, outputs.{locale}, which holds the image
   written last. *)
SlotFilled(c, loc, ar) == c.outputs[loc] = ar

AllSlotsFilled(c) ==
    \A i \in 1..Len(c.target_locales) : \A j \in 1..Len(c.aspect_ratios) :
        SlotFilled(c, c.target_locales[i], c.aspect_ratios[j])

(* The orchestration task has ended and no stage has a message left to be
   handed (text.overlaid has no subscriber) *)
Quiescent ==
    /\ orch.state = "done"
    /\ \A s \in Subjects \ {TEXT_OVERLAID_SUBJECT} : Deliverable(s) = {}

(* C1: in every stage worker an acknowledged attempt has completed its
   external call(s), persisted its result(s) and had all its downstream
   events accepted by the bus. *)
AckOnlyAfterCallWriteAndPublish ==
    last.outcome = "ack" =>
        /\ last.published >= 1
        /\ last.called = last.due
        /\ last.written = last.due
        /\ last.published = last.due

(* C2: in every stage worker, text overlay included, an attempt whose call,
   store write and publish all completed acknowledges the inbound message. *)
CompleteAttemptAcks ==
    last.path = "ok" => last.outcome = "ack"

(* C3: every attempt ends with an ack or a nak, and an attempt in which an
   exception was raised ends with a nak. *)
ExceptionAlwaysNaks ==
    /\ last.stage # "none" => last.outcome \in {"ack", "nak"}
    /\ Raised(last.stage, last.path) => last.outcome = "nak"

(* C4: an attempt in which an external call, a blob fetch or a blob upload
   failed does not acknowledge the inbound message. *)
NoAckAfterFailedCall ==
    last.path \in {"external", "download", "llm", "logo", "upload"} =>
        last.outcome # "ack"

(* C5: when the publish fails after the store write of the attempt succeeded
   (context enrichment, creative generation, and any turn of image
   generation's publish loop), the inbound message is nak'ed, not ack'ed, and
   is back on its stream for redelivery while its delivery budget lasts. *)
PublishFailureNaks ==
    (last.stage \in {"enrich", "creative", "image"} /\ last.path = "publish") =>
        /\ last.written = last.due
        /\ last.published < last.due
        /\ last.outcome = "nak"
        /\ last.delivery < MaxDeliver =>
               BagIn([body |-> last.body, n |-> last.delivery],
                     streams[InSubject(last.stage)])

(* C5 witness: image generation stored both images of a two-ratio campaign,
   published the first event, and the second publish failed. *)
PublishFailedMidLoop ==
    /\ last.stage = "image"
    /\ last.path = "publish"
    /\ last.due = 2
    /\ last.written = 2
    /\ last.published = 1
    /\ last.outcome = "nak"

(* C6: in brand composition and text overlay an attempt that does not find
   the campaign or the creative nak's the inbound message. *)
BrandAndTextNotFoundNaks ==
    (last.stage \in {"brand", "text"}
     /\ last.path \in {"campaign_missing", "creative_missing"}) =>
        last.outcome = "nak"

(* C7: in image generation an attempt that does not find the campaign or the
   creative nak's the inbound message; it is never ack'ed with zero events. *)
ImageNotFoundNaks ==
    last.stage = "image" =>
        /\ last.path \in {"campaign_missing", "creative_missing"} => last.outcome = "nak"
        /\ ~(last.outcome = "ack" /\ last.published = 0)

(* C8: a campaign is COMPLETED only when the output slot of every
   (locale, aspect ratio) pair of target_locales x aspect_ratios is filled. *)
CompletedOnlyWithAllSlots ==
    \A cid \in CampaignIds :
        campaigns[cid].status = COMPLETED => AllSlotsFilled(campaigns[cid])

(* C9: once a campaign is COMPLETED, no step changes its status or its
   completion timestamp. *)
CompletionIsStampedOnce ==
    [][\A cid \in CampaignIds :
          campaigns[cid].status = COMPLETED =>
              /\ campaigns'[cid].status = COMPLETED
              /\ campaigns'[cid].completed_at = campaigns[cid].completed_at]_vars

(* C10: with no failing call, once the pipeline has nothing left to do the
   created campaign is COMPLETED and the output slot of every
   (locale, aspect ratio) pair holds a final image. *)
FinalCampaignHasEverySlot ==
    Quiescent =>
        /\ campaigns[CampaignId].status = COMPLETED
        /\ AllSlotsFilled(campaigns[CampaignId])

(* How many events of a subject the broker accepted for (CampaignId, locale,
   aspect ratio) *)
EventCount(subject, loc, ar) ==
    LET matching == {b \in BagToSet(emitted[subject]) :
                        /\ b.campaign_id = CampaignId
                        /\ b.locale = loc
                        /\ b.aspect_ratio = ar}
    IN  BagCardinality([b \in matching |-> CopiesIn(b, emitted[subject])])

PerLocaleSubjects == {CONTEXT_ENRICH_REQUEST_SUBJECT, CONTEXT_ENRICH_READY_SUBJECT,
                      CREATIVE_GENERATE_DONE_SUBJECT}

PerPairSubjects == {IMAGE_GENERATED_SUBJECT, BRAND_COMPOSED_SUBJECT, TEXT_OVERLAID_SUBJECT}

(* C11: in a run without failures no event is emitted twice, and once the
   pipeline has nothing left to do the campaign has yielded exactly one
   request, ready and done event per target locale and exactly one image,
   brand and text event per (locale, aspect ratio) pair. *)
OneEventPerLocaleAndPair ==
    LET c == campaigns[CampaignId]
    IN  /\ \A s \in Subjects : \A b \in BagToSet(emitted[s]) : CopiesIn(b, emitted[s]) = 1
        /\ Quiescent =>
               \A i \in 1..Len(c.target_locales) :
                   /\ \A s \in PerLocaleSubjects :
                          EventCount(s, c.target_locales[i], NoRatio) = 1
                   /\ \A s \in PerPairSubjects : \A j \in 1..Len(c.aspect_ratios) :
                          EventCount(s, c.target_locales[i], c.aspect_ratios[j]) = 1

(* C12: a successful image generation attempt publishes exactly one
   ImageGenerated event for each aspect ratio of the campaign, and each of them
   is on image.generated for brand composition to be handed. *)
OneImageEventPerRatio ==
    [][(/\ last'.stage = "image"
        /\ last'.path = "ok"
        /\ streams'[CREATIVE_GENERATE_DONE_SUBJECT] # streams[CREATIVE_GENERATE_DONE_SUBJECT])
       => LET b == last'.body
              ratios == campaigns[b.campaign_id].aspect_ratios
              events == {Body(b.campaign_id, b.locale, "", ratios[j], FALSE) :
                            j \in 1..Len(ratios)}
          IN  /\ last'.published = Len(ratios)
              /\ emitted'[IMAGE_GENERATED_SUBJECT] =
                     emitted[IMAGE_GENERATED_SUBJECT] (+) SetToBag(events)
              /\ \A e \in events :
                     CopiesIn([body |-> e, n |-> 0], streams'[IMAGE_GENERATED_SUBJECT]) =
                     CopiesIn([body |-> e, n |-> 0], streams[IMAGE_GENERATED_SUBJECT]) + 1]_vars

(* C12 witness: an attempt for a campaign with two aspect ratios went through
   and both of its events were accepted. *)
PublishedBothRatios ==
    /\ last.stage = "image"
    /\ last.path = "ok"
    /\ last.published = 2
    /\ \A ar \in AspectRatios :
           BagIn(Body(last.body.campaign_id, last.body.locale, "", ar, FALSE),
                 emitted[IMAGE_GENERATED_SUBJECT])

(* The requests a fan-out over the first n target locales publishes: for each
   of them one body with the campaign's id, that locale and the correlation id
   of the creation *)
FanOut(c, n) ==
    SetToBag({Body(CampaignId, c.target_locales[i], CorrelationId, NoRatio, FALSE) :
                 i \in 1..n})

(* C13: a fan-out that did not fail has published exactly one
   ContextEnrichRequest per target locale of the persisted campaign, carrying
   its campaign_id, that locale and the creation correlation_id, and none for
   any other locale. *)
FanOutOnePerLocale ==
    orch.state = "done" =>
        /\ Exists(CampaignId)
        /\ emitted[CONTEXT_ENRICH_REQUEST_SUBJECT] =
               FanOut(campaigns[CampaignId], Len(campaigns[CampaignId].target_locales))

(* C13 witness: the fan-out of a campaign with two target locales is done. *)
FanOutOfTwoLocalesDone ==
    /\ orch.state = "done"
    /\ campaigns[CampaignId].target_locales = <<"en", "de">>
    /\ BagCardinality(emitted[CONTEXT_ENRICH_REQUEST_SUBJECT]) = 2

(* C14: when the fan-out failed at a locale, the campaign is FAILED, its
   document is still stored with what was persisted, the requests of the
   earlier locales were published and none was published for the failing or a
   later locale. *)
FailedFanOutKeepsCampaign ==
    orch.state = "failed" =>
        LET c == campaigns[CampaignId]
        IN  /\ c.status = FAILED
            /\ c.correlation_id = CorrelationId
            /\ c.target_locales \in LocaleLists
            /\ c.aspect_ratios \in RatioLists
            /\ orch.idx \in 1..Len(c.target_locales)
            /\ emitted[CONTEXT_ENRICH_REQUEST_SUBJECT] = FanOut(c, orch.idx - 1)

(* C14 witness: the fan-out failed at the second of two locales, with the
   request of the first one published. *)
FanOutFailedAtSecondLocale ==
    /\ orch.state = "failed"
    /\ orch.idx = 2
    /\ campaigns[CampaignId].status = FAILED
    /\ BagCardinality(emitted[CONTEXT_ENRICH_REQUEST_SUBJECT]) = 1

(* C15: a create request for a campaign_id that already exists is answered
   409, leaves the stored campaign document as it is and publishes nothing:
   no briefs.ingested, no ContextEnrichRequest, no fan-out task. *)
DuplicateCreateRejected ==
    [][(response' = 409 /\ response # 409) =>
           /\ Exists(CampaignId)
           /\ campaigns' = campaigns
           /\ briefs' = briefs
           /\ orch' = orch
           /\ streams' = streams
           /\ emitted' = emitted]_vars

(* C15 witness: a second create for the stored campaign was answered 409. *)
DuplicateCreateAnswered ==
    /\ response = 409
    /\ Exists(CampaignId)
    /\ briefs = 1

(* C16: the campaign document is stored before any event of the campaign is
   published, and when 202 has been returned the ContextEnrichRequest of every
   target locale has been published. *)
PersistFanOutThenAccepted ==
    /\ briefs > 0 => Exists(CampaignId)
    /\ \A s \in Subjects : \A b \in BagToSet(emitted[s]) :
           b.campaign_id = CampaignId => Exists(CampaignId)
    /\ response = 202 =>
           emitted[CONTEXT_ENRICH_REQUEST_SUBJECT] =
               FanOut(campaigns[CampaignId], Len(campaigns[CampaignId].target_locales))

(* How many unacknowledged copies of a body a stream holds, whatever their
   delivery count *)
InFlight(subject, body) ==
    LET ms == {m \in BagToSet(streams[subject]) : m.body = body}
    IN  BagCardinality([m \in ms |-> CopiesIn(m, streams[subject])])

(* C19: for every (campaign_id, locale, aspect_ratio) the number of Image
   documents never exceeds the number of deliveries of the CreativeGenerateDone
   message of (campaign_id, locale), which is at most the maximum delivery
   count. *)
ImagesBoundedByDeliveries ==
    /\ \A k \in DOMAIN images : images[k] <= MaxDeliver
    /\ last.stage = "image" =>
           \A ar \in AspectRatios :
               images[<<last.body.campaign_id, last.body.locale, ar>>] <= last.delivery
    /\ \A m \in BagToSet(streams[CREATIVE_GENERATE_DONE_SUBJECT]) : \A ar \in AspectRatios :
           images[<<m.body.campaign_id, m.body.locale, ar>>] <= m.n

(* C19 witness: the second delivery of a CreativeGenerateDone message left a
   second Image document for an aspect ratio. *)
RedeliveryDuplicatedImage ==
    /\ last.stage = "image"
    /\ last.delivery = 2
    /\ \E ar \in AspectRatios :
           images[<<last.body.campaign_id, last.body.locale, ar>>] = 2

(* C20: a message is handed to its handler at most 3 times; no message with
   its delivery budget used up is left on a stream, and a message whose third
   delivery ended without an ack is parked, not on its stream any more. *)
AtMostThreeDeliveries ==
    /\ last.delivery <= 3
    /\ \A s \in Subjects : \A m \in BagToSet(streams[s]) : m.n < 3
    /\ \A s \in Subjects : \A b \in BagToSet(emitted[s]) :
           InFlight(s, b) + CopiesIn(b, parked[s]) <= CopiesIn(b, emitted[s])
    /\ (last.stage # "none" /\ last.outcome # "ack" /\ last.delivery = 3) =>
           BagIn(last.body, parked[InSubject(last.stage)])
    /\ \A s \in Subjects : \A b \in BagToSet(parked[s]) : BagIn(b, emitted[s])

(* C20 witness: the third delivery of a message ended without an ack and the
   message is parked. *)
ParkedAfterThirdDelivery ==
    /\ last.delivery = 3
    /\ last.outcome # "ack"
    /\ BagIn(last.body, parked[InSubject(last.stage)])
    /\ InFlight(InSubject(last.stage), last.body) = 0

(* C17: whatever deliveries, redeliveries and overlapping attempts wrote, the
   store holds at most one ContextPack document and at most one Creative
   document per (campaign_id, locale). *)
OneDocumentPerKey ==
    /\ \A k \in DOMAIN context_packs : context_packs[k] <= 1
    /\ \A k \in DOMAIN creatives : creatives[k] <= 1
    /\ \A col \in Collections : \A key \in StoreKeys : Cardinality(Matches(col, key)) <= 1

CallsPerAttempt(stage, b) ==
    IF stage = "image" THEN Len(campaigns[b.campaign_id].aspect_ratios) ELSE 1

(* C21: an attempt is one of at most 3 deliveries of its message and makes at
   most the calls of one attempt (one, or one per aspect ratio in image
   generation), so the calls made for the message up to and including it are
   at most 3 times the calls of one attempt. *)
CallsBoundedByDeliveries ==
    last.stage # "none" =>
        LET per == CallsPerAttempt(last.stage, last.body)
        IN  /\ last.delivery \in 1..MaxDeliver
            /\ last.called <= per
            /\ (last.delivery - 1) * per + last.called <= MaxDeliver * per

(* C21 witness: the third delivery of a message made its call again: the
   call is made for the third time. *)
ThirdDeliveryCalledAgain ==
    /\ last.delivery = MaxDeliver
    /\ last.called = CallsPerAttempt(last.stage, last.body)
    /\ last.called >= 1

(* A step that is a handler attempt of a stage worker: it settles a message of
   a stream, and is neither a turn of the fan-out nor the test script *)
WorkerStep == streams' # streams /\ orch' = orch /\ injected' = injected

(* C22: no attempt of a stage worker sets a campaign FAILED: an attempt leaves
   the status as it was, or COMPLETED by the text overlay write that detected
   completion.  The attempt after which a message is parked changes nothing
   but what the attempt itself wrote: if it wrote nothing, the campaigns and
   every stored entity are as before, and a PROCESSING campaign is still
   PROCESSING. *)
WorkersNeverMarkFailed ==
    [][WorkerStep =>
          /\ \A cid \in CampaignIds :
                \/ campaigns'[cid].status = campaigns[cid].status
                \/ /\ campaigns'[cid].status = COMPLETED
                   /\ last'.stage = "text"
                   /\ last'.written = 1
          /\ (parked' # parked /\ last'.written = 0) =>
                /\ campaigns' = campaigns
                /\ context_packs' = context_packs
                /\ creatives' = creatives
                /\ images' = images
                /\ branded_images' = branded_images]_vars

(* C22 witness: the third delivery of a BrandComposed message failed, the
   message is parked and its campaign is still PROCESSING. *)
ParkedWithCampaignProcessing ==
    /\ last.stage = "text"
    /\ last.delivery = MaxDeliver
    /\ last.written = 0
    /\ BagIn(last.body, parked[BRAND_COMPOSED_SUBJECT])
    /\ campaigns[last.body.campaign_id].status = PROCESSING

(* C23: the status of a campaign changes only from PROCESSING to COMPLETED or
   from PROCESSING to FAILED (after its creation as PROCESSING): a COMPLETED
   campaign is never set FAILED or PROCESSING and a FAILED one is never set
   COMPLETED, however the fan-out and the text overlay attempts interleave. *)
StatusMovesForwardOnly ==
    [][\A cid \in CampaignIds :
          campaigns'[cid].status # campaigns[cid].status =>
              \/ campaigns[cid].status = "absent" /\ campaigns'[cid].status = PROCESSING
              \/ campaigns[cid].status = PROCESSING
                 /\ campaigns'[cid].status \in {COMPLETED, FAILED}]_vars

(* C23 witness: the fan-out failed at the second locale and text overlay has
   written the first locale's output into the FAILED campaign. *)
OverlayWroteIntoFailedCampaign ==
    /\ campaigns[CampaignId].status = FAILED
    /\ campaigns[CampaignId].outputs["en"] # NullUrl
    /\ last.stage = "text"
    /\ last.written = 1

(* C24: every event of the created campaign (ContextEnrichRequest,
   ContextEnrichReady, CreativeGenerateDone, ImageGenerated, BrandComposed,
   TextOverlaid) carries the correlation_id assigned at its creation. *)
CorrelationIdCarried ==
    \A s \in Subjects : \A b \in BagToSet(emitted[s]) :
        b.campaign_id = CampaignId => b.correlation_id = campaigns[CampaignId].correlation_id

(* C25: every (locale, aspect ratio) pair has an output slot of its own: a
   step, in particular a text overlay write for another aspect ratio of the
   same locale, never overwrites or removes a filled slot. *)
SlotsOfOtherRatiosKept ==
    [][\A cid \in CampaignIds : \A loc \in Locales : \A ar \in AspectRatios :
          SlotFilled(campaigns[cid], loc, ar) => SlotFilled(campaigns'[cid], loc, ar)]_vars

(* C26: a text overlay attempt for locale L changes, in the campaign document
   of its message, only the outputs of L, and the status and completion time
   when it finds every target locale complete: the outputs of every other
   locale, target_locales, the aspect ratios, the fields of the brief and
   every other campaign document are left as they were. *)
OverlayTouchesOwnLocaleOnly ==
    [][(WorkerStep /\ last'.stage = "text") =>
          LET b == last'.body
              c == campaigns[b.campaign_id]
              c1 == campaigns'[b.campaign_id]
          IN  /\ \A cid \in CampaignIds \ {b.campaign_id} : campaigns'[cid] = campaigns[cid]
              /\ \A l \in Locales \ {b.locale} : c1.outputs[l] = c.outputs[l]
              /\ c1.target_locales = c.target_locales
              /\ c1.aspect_ratios = c.aspect_ratios
              /\ c1.correlation_id = c.correlation_id
              /\ c1.status # c.status => (c1.status = COMPLETED /\ AllComplete(c1))
              /\ c1.completed_at # c.completed_at => AllComplete(c1)]_vars

(* C26 witness: text overlay wrote the output of one locale into a campaign
   that holds the output of another locale. *)
OverlayWroteBesideOtherLocale ==
    /\ last.stage = "text"
    /\ last.written = 1
    /\ \E l \in Locales \ {last.body.locale} :
           campaigns[last.body.campaign_id].outputs[l] # NullUrl

(* C28: a stored campaign is never removed, and its target_locales and aspect
   ratios keep the values given at creation through every step of the gateway
   and of the workers. *)
CreationFieldsKept ==
    [][\A cid \in CampaignIds :
          Exists(cid) =>
              /\ campaigns'[cid].status # "absent"
              /\ campaigns'[cid].target_locales = campaigns[cid].target_locales
              /\ campaigns'[cid].aspect_ratios = campaigns[cid].aspect_ratios]_vars

(* C28 witness: a campaign of two locales went through every stage to
   COMPLETED and a second create request for it was answered. *)
CompletedAfterSecondCreate ==
    /\ campaigns[CampaignId].status = COMPLETED
    /\ campaigns[CampaignId].target_locales = <<"en", "de">>
    /\ campaigns[CampaignId].aspect_ratios = <<"1x1">>
    /\ response = 409

(* C27: when text overlay attempts run at once, no output written is lost (the
   slot of every locale an attempt wrote holds what an attempt for that locale
   wrote), and once no attempt is under way a campaign whose target locales
   all have their output is COMPLETED: the attempt that reads the document
   after the last write finds it complete and marks it. *)
NoLostSlotAndCompletion ==
    LET c == campaigns[CampaignId]
        wrote(w) == overlays[w].phase \in {"wrote", "read", "done"}
    IN  /\ \A w \in Overlayers :
               wrote(w) =>
                   \E v \in Overlayers :
                       /\ wrote(v)
                       /\ overlays[v].body.locale = overlays[w].body.locale
                       /\ c.outputs[overlays[w].body.locale] = overlays[v].body.aspect_ratio
        /\ ((\A w \in Overlayers : overlays[w].phase \in {"idle", "done"}) /\ AllComplete(c))
               => c.status = COMPLETED

(* C27 witness: two attempts for different locales ran interleaved, each read
   the document after both had written, and the campaign is COMPLETED. *)
InterleavedOverlaysCompleted ==
    \E v, w \in Overlayers :
        /\ overlays[v].phase = "done"
        /\ overlays[w].phase = "done"
        /\ overlays[v].body.locale # overlays[w].body.locale
        /\ overlays[v].all_complete
        /\ overlays[w].all_complete
        /\ campaigns[CampaignId].status = COMPLETED

(* C29: the request of a locale carries the region, audience, age_min and
   age_max of the locale's audience override for the fields the override has,
   and the campaign-level value (0 for an age the campaign does not give) for
   the fields it lacks and when the locale has no override. *)
RequestCarriesResolvedAudience ==
    \A loc \in DOMAIN requests : \A k \in AudienceKeys :
        LET level == IF k \in {"age_min", "age_max"} /\ brief.audience[k] = None
                     THEN 0 ELSE brief.audience[k]
        IN  requests[loc][k] =
                IF loc \in DOMAIN brief.localization /\ k \in DOMAIN brief.localization[loc]
                THEN brief.localization[loc][k]
                ELSE level

(* C29 witness: a request was built for a locale whose override has some of
   the four fields and lacks others, beside a locale without override. *)
PartialOverrideResolved ==
    \E loc \in DOMAIN requests :
        /\ loc \in DOMAIN brief.localization
        /\ DOMAIN brief.localization[loc] \notin {{}, AudienceKeys}
        /\ \E other \in DOMAIN requests : other \notin DOMAIN brief.localization

Stages == {"enrich", "creative", "image", "brand", "text"}

Route(stream, subject, type) == [stream |-> stream, subject |-> subject, type |-> type]

(* What the producer of the events a stage consumes is built with: the
   stream_name and subject of its JetStreamPublisher and the protobuf class of
   the message it passes to publish *)
Producer(stage) ==
    CASE stage = "enrich" ->
             Route("context-request-stream", CONTEXT_ENRICH_REQUEST_SUBJECT,
                   "ContextEnrichRequest")
      [] stage = "creative" ->
             Route("context-ready-stream", CONTEXT_ENRICH_READY_SUBJECT, "ContextEnrichReady")
      [] stage = "image" ->
             Route("creative-generate-done-stream", CREATIVE_GENERATE_DONE_SUBJECT,
                   "CreativeGenerateDone")
      [] stage = "brand" ->
             Route("image-generate-stream", IMAGE_GENERATED_SUBJECT, "ImageGenerated")
      [] OTHER ->
             Route("brand-compose-stream", BRAND_COMPOSED_SUBJECT, "BrandComposeDone")

(* What a stage consumes: the stream_name and subject of its
   JetStreamEventSubscriber and the protobuf class its handler parses
   msg.data with *)
Consumer(stage) ==
    CASE stage = "enrich" ->
             Route("context-request-stream", CONTEXT_ENRICH_REQUEST_SUBJECT,
                   "ContextEnrichRequest")
      [] stage = "creative" ->
             Route("context-ready-stream", CONTEXT_ENRICH_READY_SUBJECT, "ContextEnrichReady")
      [] stage = "image" ->
             Route("creative-generate-done-stream", CREATIVE_GENERATE_DONE_SUBJECT,
                   "CreativeGenerateDone")
      [] stage = "brand" ->
             Route("image-generate-stream", IMAGE_GENERATED_SUBJECT, "ImageGenerated")
      [] OTHER ->
             Route("brand-compose-stream", BRAND_COMPOSED_SUBJECT, "BrandComposed")

(* C30: every event published for a stage was published on the stream and
   subject the stage subscribes to and with the message type the stage
   decodes. *)
ProducerMatchesConsumer ==
    \A stage \in Stages :
        emitted[InSubject(stage)] # EmptyBag =>
            /\ Producer(stage).subject = InSubject(stage)
            /\ Producer(stage).stream = Consumer(stage).stream
            /\ Producer(stage).subject = Consumer(stage).subject
            /\ Producer(stage).type = Consumer(stage).type

----------------------------------------------------------------------------
(* Order of call, write and publish within one attempt *)

(* The stage's call is over when the attempt gets to its write: it returned,
   or it raised inside analyze_logo_placement / analyze_text_placement, whose
   except branch returns a default placement *)
CallOver(a) ==
    \/ a.called = a.due
    \/ a.stage = "brand" /\ a.path \in BrandSwallowed
    \/ a.stage = "text" /\ a.path \in TextSwallowed

(* The entity a stage writes for the key of the event it publishes is in the
   store *)
ArtifactReadable(subject, b) ==
    CASE subject = CONTEXT_ENRICH_READY_SUBJECT -> context_packs[Key(b)] >= 1
      [] subject = CREATIVE_GENERATE_DONE_SUBJECT -> creatives[Key(b)] >= 1
      [] subject = IMAGE_GENERATED_SUBJECT ->
             images[<<b.campaign_id, b.locale, b.aspect_ratio>>] >= 1
      [] subject = BRAND_COMPOSED_SUBJECT -> branded_images[Key(b)] >= 1
      [] OTHER -> campaigns[b.campaign_id].outputs[b.locale] # NullUrl

(* C31: an attempt that published an event had its call over and every entity
   of the attempt written before, and the entity of every event a stage
   published for the campaign is in the store. *)
PublishedAfterCallAndWrite ==
    /\ last.published >= 1 => CallOver(last) /\ last.written = last.due
    /\ \A s \in Subjects \ {CONTEXT_ENRICH_REQUEST_SUBJECT} :
           \A b \in BagToSet(emitted[s]) :
               b.campaign_id = CampaignId => ArtifactReadable(s, b)

(* A creative attempt published CreativeGenerateDone with its call returned
   and its creative stored *)
CreativePublishedAfterWrite ==
    /\ last.stage = "creative"
    /\ last.body.campaign_id = CampaignId
    /\ last.published = 1
    /\ last.called = 1
    /\ last.written = 1
    /\ creatives[Key(last.body)] = 1

----------------------------------------------------------------------------
(* Workers and the campaign status *)

(* The documents and the blob an attempt of the stage looks up are there *)
Found(stage, b) ==
    /\ Exists(b.campaign_id)
    /\ stage \in {"image", "text"} => creatives[Key(b)] > 0
    /\ stage = "text" => b.uploaded

(* C32: an attempt on a message of a campaign that is FAILED when the attempt
   starts, with nothing failing and its documents found, takes the complete
   path: it writes every entity and publishes every event that are due. *)
FailedCampaignProcessedAlike ==
    [][(/\ WorkerStep
        /\ faults' = faults
        /\ last'.body.campaign_id = CampaignId
        /\ campaigns[CampaignId].status = FAILED
        /\ Found(last'.stage, last'.body))
       => (/\ last'.path = "ok"
           /\ last'.due >= 1
           /\ last'.written = last'.due
           /\ last'.published = last'.due)]_vars

(* The images of a locale were inserted for a campaign that is FAILED *)
ImagesWrittenForFailedCampaign ==
    /\ campaigns[CampaignId].status = FAILED
    /\ last.stage = "image"
    /\ last.path = "ok"
    /\ last.written = last.due
    /\ last.written >= 1
    /\ images[<<CampaignId, last.body.locale, campaigns[CampaignId].aspect_ratios[1]>>] >= 1

----------------------------------------------------------------------------
(* C33: every stored campaign that is still PROCESSING had its fan-out
   started: none stays stored in PROCESSING with no orchestration task and no
   ContextEnrichRequest published for it. *)
StoredCampaignFansOutOrFails ==
    Exists(CampaignId) /\ campaigns[CampaignId].status = PROCESSING
        => orch.state # "none"

----------------------------------------------------------------------------
(* Concurrent creations of one campaign_id *)

(* The handlers whose insert_one stored a document *)
Inserted == {w \in Creators : creating[w].phase \in {"publish", "accepted"}}

(* The handlers that published briefs.ingested and started a fan-out task *)
Started == {w \in Creators : creating[w].phase = "accepted"}

(* C34: of the create requests for one campaign_id handled at once, at most
   one stores a campaign document, the stored document is that request's, and
   at most one publishes briefs.ingested and starts a fan-out. *)
OneCreateWins ==
    /\ Cardinality(Inserted) <= 1
    /\ \A w \in Inserted :
           campaigns[CampaignId] = NewCampaign(creating[w].request, CorrelationId)
    /\ Cardinality(Started) <= 1
    /\ briefs = Cardinality(Started)

(* Two handlers found no campaign; the insert of one was refused and the other
   started the fan-out *)
RacingCreateRefused ==
    \E w, v \in Creators :
        /\ creating[w].phase = "accepted"
        /\ creating[v].phase = "error"
        /\ creating[v].request # creating[w].request

----------------------------------------------------------------------------
(* C35: the blob URI of every ImageGenerated, BrandComposed and TextOverlaid
   event the broker accepted refers to a blob whose upload was completed
   before the event was published. *)
BlobUrisReferToUploads ==
    \A s \in {IMAGE_GENERATED_SUBJECT, BRAND_COMPOSED_SUBJECT, TEXT_OVERLAID_SUBJECT} :
        \A b \in BagToSet(emitted[s]) : b.uploaded

----------------------------------------------------------------------------
(* C36: no step resets or removes the final image of a locale's output slot,
   and a campaign whose completion condition holds keeps it. *)
SlotsOnlyFill ==
    [][/\ \A l \in Locales :
              campaigns[CampaignId].outputs[l] # NullUrl
                  => campaigns'[CampaignId].outputs[l] # NullUrl
       /\ Exists(CampaignId) /\ AllComplete(campaigns[CampaignId])
              => AllComplete(campaigns'[CampaignId])]_vars

(* A redelivered BrandComposed message was overlaid again, with the
   initialisation step run again, while both locales hold their final image *)
RedeliveredOverlayKeptSlots ==
    /\ last.stage = "text"
    /\ last.delivery >= 2
    /\ last.written = 1
    /\ campaigns[CampaignId].target_locales = <<"en", "de">>
    /\ \A l \in Locales : campaigns[CampaignId].outputs[l] # NullUrl

----------------------------------------------------------------------------
(* C37: a campaign whose status is completed holds a final image for every
   one of its target locales, and its completed_at is set, to a reading of the
   clock. *)
CompletedHasEveryLocaleAndTime ==
    \A cid \in CampaignIds :
        LET c == campaigns[cid]
        IN  c.status = COMPLETED =>
                /\ \A i \in 1..Len(c.target_locales) :
                       c.outputs[c.target_locales[i]] # NullUrl
                /\ c.completed_at # None
                /\ c.completed_at \in 0..now

(* The overlay of the second of two locales completed the campaign *)
SecondLocaleCompletedCampaign ==
    /\ campaigns[CampaignId].status = COMPLETED
    /\ campaigns[CampaignId].target_locales = <<"en", "de">>
    /\ campaigns[CampaignId].completed_at # None
    /\ last.stage = "text"
    /\ last.written = 1

----------------------------------------------------------------------------
(* C38: for every (campaign_id, locale, aspect_ratio) the broker has accepted
   at most as many ImageGenerated events as Image documents are stored. *)
ImageEventsBoundedByImages ==
    \A loc \in Locales : \A ar \in AspectRatios :
        EventCount(IMAGE_GENERATED_SUBJECT, loc, ar) <= images[<<CampaignId, loc, ar>>]

(* The publish loop broke off at the second aspect ratio and the redelivered
   attempt ran to its end: two Image documents and one event for that ratio *)
RedeliveredAfterBrokenPublishLoop ==
    /\ last.stage = "image"
    /\ last.delivery = 2
    /\ last.path = "ok"
    /\ last.published = 2
    /\ \E loc \in Locales : \E ar \in AspectRatios :
           /\ images[<<CampaignId, loc, ar>>] = 2
           /\ EventCount(IMAGE_GENERATED_SUBJECT, loc, ar) = 1

====
